---------------------------- MODULE Spec2Model ----------------------------
(***************************************************************************)
(* LR(0) automaton construction of LLRsemantic.                            *)
(*                                                                         *)
(* GrammarController.createGrammar loads and augments a grammar,           *)
(* LLRController.startNode builds the automaton by the recursion           *)
(* NodeController.newNode -> createNode -> depth -> newNode ...            *)
(*                                                                         *)
(* Python objects are modelled by value plus an identity tag where the     *)
(* code compares objects by identity (Production has no __eq__):           *)
(*   - a Node is an index into the heap `nodes`;                           *)
(*   - an item is a Production object [left, right, pointIndex, obj];      *)
(*     inside one node, obj = k > 0 is production k of the controller's    *)
(*     OriginalGrammar and obj = -j < 0 is the j-th deep-copied kernel     *)
(*     production handed to newNode.                                       *)
(* The recursion of depth() is unfolded into steps over an explicit call   *)
(* stack of depth() frames.                                                *)
(***************************************************************************)
EXTENDS Integers, Sequences, FiniteSets, TLC

\* Bounds on the grammars given to createGrammar.
MaxProds == 2
MaxRhs == 2

VARIABLES
    pc,               \* position of the driver (Interface.__open / main.openJson)
    data,             \* the grammar dictionary handed to createGrammar
    grammar,          \* GrammarController._grammar, aliased by LLR.grammar
    OriginalGrammar,  \* NodeController._OriginalGrammar (deep copies, equal by value)
    Visited,          \* LLRController._Visited, shared by every NodeController
    nodes,            \* heap of Node objects, in creation order
    start,            \* LLR.start, an index into nodes
    stack,            \* active depth() calls, innermost last
    count,            \* result of obtainNumberOfStates()
    statesList,       \* llrStates = obtainStates()
    edgesList,        \* llrEdges = obtainEdges()
    opened            \* the dictionaries of the files opened so far, as read

vars == <<pc, data, grammar, OriginalGrammar, Visited, nodes, start, stack,
          count, statesList, edgesList, opened>>

-----------------------------------------------------------------------------
\* Models/*.py

\* None for Node.allowed and for the node of verifyExistence
None == -1

\* Production()
Production == [left |-> "", right |-> <<>>, pointIndex |-> 0]

\* Grammar()
Grammar == [productions |-> <<Production>>, terminals |-> <<>>,
            nonTerminals |-> <<>>, initial |-> ""]

\* Node(): the initial edge and production are popped again
Node == [name |-> "", productions |-> <<>>, edge |-> <<>>, allowed |-> None]

\* Edge() whose transition is left as constructed
Edge_unlabelled(origin, destination, tr) ==
    [origin |-> origin, destination |-> destination, transition |-> ""]

\* Edge() with origin and destination exchanged
Edge_reversed(origin, destination, tr) ==
    [origin |-> destination, destination |-> origin, transition |-> tr]

\* Edge() with origin, destination and transition set (depth)
Edge(origin, destination, tr) ==
    [origin |-> origin, destination |-> destination, transition |-> tr]

\* list.pop(): drop the last element
Pop(s) == SubSeq(s, 1, Len(s) - 1)

\* Python list indexing s[i], negative indices count from the end
PyIndex(s, i) == IF i >= 0 THEN s[i + 1] ELSE s[Len(s) + i + 1]

\* x in list
InList(x, s) == \E i \in 1..Len(s) : s[i] = x

-----------------------------------------------------------------------------
\* Inputs of createGrammar

Lefts == {"S", "A"}
RhsSymbols == {"S", "A", "a", "S'"}

SeqsUpTo(S, n) == UNION {[1..k -> S] : k \in 0..n}

ProductionData == {[left |-> l, right |-> r] :
                      l \in Lefts, r \in SeqsUpTo(RhsSymbols, MaxRhs)}

\* every symbol used is declared: S' is declared when some right side uses it
DeclaredNonTerminals(ps) ==
    IF \E i \in 1..Len(ps) : InList("S'", ps[i].right)
    THEN <<"S", "A", "S'">> ELSE <<"S", "A">>

\* the grammar S -> a S b | c
Scenario == [initial |-> "S", terminals |-> <<"a", "b", "c">>,
             nonTerminals |-> <<"S">>,
             productions |-> <<[left |-> "S", right |-> <<"a", "S", "b">>],
                               [left |-> "S", right |-> <<"c">>]>>]

Inputs == {[initial |-> "S", terminals |-> <<"a">>,
            nonTerminals |-> DeclaredNonTerminals(ps), productions |-> ps] :
              ps \in SeqsUpTo(ProductionData, MaxProds)} \cup {Scenario}

-----------------------------------------------------------------------------
\* Controller/GrammarController.py

variable_exists(g, name) ==
    \E i \in 1..Len(g.productions) : g.productions[i].left = name

\* while self.variable_exists(new_name): new_name += "'"
RECURSIVE add_quote_loop(_, _)
add_quote_loop(g, new_name) ==
    IF variable_exists(g, new_name) THEN add_quote_loop(g, new_name \o "'")
    ELSE new_name

add_quote_to_variable(g, name) == add_quote_loop(g, name \o "'")

\* expandGrammar that leaves the initial symbol of the grammar as it was
expandGrammar_keepInitial(g) ==
    LET name == add_quote_to_variable(g, g.initial)
        newProduction == [left |-> name, right |-> <<g.initial>>, pointIndex |-> 0]
    IN  [g EXCEPT !.productions = <<newProduction>> \o g.productions,
                  !.nonTerminals = Append(g.nonTerminals, name)]

expandGrammar(g) ==
    LET name == add_quote_to_variable(g, g.initial)
        newProduction == [left |-> name, right |-> <<g.initial>>, pointIndex |-> 0]
    IN  [g EXCEPT !.productions = <<newProduction>> \o g.productions,
                  !.initial = name,
                  !.nonTerminals = Append(g.nonTerminals, name)]

createGrammar(g, d) ==
    LET loaded == [i \in 1..Len(d.productions) |->
                      [left |-> d.productions[i].left,
                       right |-> d.productions[i].right,
                       pointIndex |-> 0]]
    IN  expandGrammar([productions |-> Pop(g.productions) \o loaded,
                       terminals |-> d.terminals,
                       nonTerminals |-> d.nonTerminals,
                       initial |-> d.initial])


-----------------------------------------------------------------------------
\* Controller/NodeController.py

\* copy.deepcopy(productions): equal values, fresh objects
deepcopy(productions) ==
    [j \in 1..Len(productions) |-> [productions[j] EXCEPT !.obj = -j]]

\* for p in productions: p.pointIndex = p.pointIndex + 1
advance(productions) ==
    [j \in 1..Len(productions) |->
        [productions[j] EXCEPT !.pointIndex = productions[j].pointIndex + 1]]

\* i.left == j.left and i.right == j.right and i.pointIndex == j.pointIndex
sameItem(i, j) ==
    i.left = j.left /\ i.right = j.right /\ i.pointIndex = j.pointIndex

\* number of pairs (i, j) of productions x v[0] that match
matches(productions, kernel) ==
    Cardinality({ij \in (1..Len(productions)) \X (1..Len(kernel)) :
                    sameItem(productions[ij[1]], kernel[ij[2]])})

\* the loop over self._Visited: existenceAux accumulates over every entry
\* of the same length
RECURSIVE existenceAux(_, _, _)
existenceAux(visited, productions, k) ==
    IF k = 0 THEN 0
    ELSE existenceAux(visited, productions, k - 1) +
         (IF Len(visited[k][1]) = Len(productions)
          THEN matches(productions, visited[k][1]) ELSE 0)

\* verifyExistence(productions): <<new state?, node>>; the argument is a deep
\* copy whose point indices are advanced before the comparison, and node is
\* v[1] of the last entry visited by the loop
verifyExistence(visited, productions) ==
    LET adv == advance(productions)
        node == IF Len(visited) = 0 THEN None ELSE visited[Len(visited)][2]
    IN  <<existenceAux(visited, adv, Len(visited)) < Len(adv), node>>

\* findTransitions(): symbols after the point, first appearance order
RECURSIVE findTransitionsFrom(_, _, _)
RECURSIVE findTransitionsFrom_prepend(_, _, _)

\* a new symbol put in front of the list
findTransitionsFrom_prepend(productions, k, trans) ==
    IF k > Len(productions) THEN trans
    ELSE LET p == productions[k] IN
         IF p.pointIndex < Len(p.right) /\ ~InList(PyIndex(p.right, p.pointIndex), trans)
         THEN findTransitionsFrom_prepend(productions, k + 1,
                                          <<PyIndex(p.right, p.pointIndex)>> \o trans)
         ELSE findTransitionsFrom_prepend(productions, k + 1, trans)

findTransitionsFrom(productions, k, trans) ==
    IF k > Len(productions) THEN trans
    ELSE LET p == productions[k] IN
         IF p.pointIndex < Len(p.right) /\ ~InList(PyIndex(p.right, p.pointIndex), trans)
         THEN findTransitionsFrom(productions, k + 1,
                                  Append(trans, PyIndex(p.right, p.pointIndex)))
         ELSE findTransitionsFrom(productions, k + 1, trans)

findTransitions(node) == findTransitionsFrom(node.productions, 1, <<>>)

\* findProduction stopping at the first production found
findProduction_first(G, name) ==
    LET found == SelectSeq([k \in 1..Len(G.productions) |->
                              [left |-> G.productions[k].left,
                               right |-> G.productions[k].right,
                               pointIndex |-> G.productions[k].pointIndex,
                               obj |-> k]],
                           LAMBDA p : p.left = name)
    IN  IF found = <<>> THEN <<>> ELSE <<found[1]>>

\* findProduction(name): the Production objects of OriginalGrammar with that
\* left side (the objects themselves, not copies)
findProduction(G, name) ==
    SelectSeq([k \in 1..Len(G.productions) |->
                  [left |-> G.productions[k].left,
                   right |-> G.productions[k].right,
                   pointIndex |-> G.productions[k].pointIndex,
                   obj |-> k]],
              LAMBDA p : p.left = name)

\* exists(production): `p == production` is object identity
exists(node, production) ==
    \E k \in 1..Len(node.productions) : node.productions[k].obj = production.obj

\* findAccepted counting the productions from 1
findAccepted_fromOne(G, production) ==
    LET idx == {k \in 1..Len(G.productions) :
                   /\ G.productions[k].left = production.left
                   /\ G.productions[k].right = production.right}
    IN  IF idx = {} THEN None
        ELSE CHOOSE k \in idx : \A m \in idx : k <= m

\* findAccepted(production): index of the first production of OriginalGrammar
\* with the same left and right
findAccepted(G, production) ==
    LET idx == {k \in 1..Len(G.productions) :
                   /\ G.productions[k].left = production.left
                   /\ G.productions[k].right = production.right}
    IN  IF idx = {} THEN None
        ELSE (CHOOSE k \in idx : \A m \in idx : k <= m) - 1

\* createNode(productions) on the controller's node, from the k-th production
RECURSIVE createNodeFrom(_, _, _, _)
createNodeFrom(G, node, productions, k) ==
    IF k > Len(productions) THEN node
    ELSE
      LET p == productions[k]
          added == [node EXCEPT !.productions = Append(@, p)]
      IN  IF p.pointIndex < Len(p.right)
          THEN IF InList(PyIndex(p.right, p.pointIndex), G.nonTerminals)
                  /\ ~exists(node, p)
               THEN createNodeFrom(G,
                        createNodeFrom(G, added,
                            findProduction(G, PyIndex(p.right, p.pointIndex)), 1),
                        productions, k + 1)
               ELSE IF ~exists(node, p)
                    THEN createNodeFrom(G, added, productions, k + 1)
                    ELSE createNodeFrom(G, node, productions, k + 1)
          ELSE IF ~exists(node, p)
               THEN createNodeFrom(G,
                        [added EXCEPT !.allowed = findAccepted(G, p)],
                        productions, k + 1)
               ELSE createNodeFrom(G, node, productions, k + 1)

createNode(G, node, productions) == createNodeFrom(G, node, productions, 1)

\* the productions of the node that can move over tr (depth, inner loop)
productionsToTransition(node, tr) ==
    SelectSeq(node.productions,
              LAMBDA p : p.pointIndex < Len(p.right)
                         /\ PyIndex(p.right, p.pointIndex) = tr)

-----------------------------------------------------------------------------
\* The construction as a state machine

NoData == [initial |-> "", terminals |-> <<>>, nonTerminals |-> <<>>,
           productions |-> <<>>]

\* depth() run by the calling controller again instead of the new one
Frame_caller(node) ==
    LET m == IF stack = <<>> THEN node ELSE stack[Len(stack)].node
    IN  [node |-> m, transitions |-> findTransitions(nodes'[m]), i |-> 1]

\* a depth() call of the controller of `node`, about to handle transitions[i]
Frame(node) ==
    [node |-> node, transitions |-> findTransitions(nodes'[node]), i |-> 1]

Top == stack[Len(stack)]
TopNode == nodes[Top.node]
TopTr == Top.transitions[Top.i]
Pending == pc = "depth" /\ Top.i <= Len(Top.transitions)

\* GrammarController(), LLRController(): empty grammar, LLR() with its own
\* Node(), empty visited list
Init ==
    /\ pc = "open"
    /\ data = NoData
    /\ grammar = Grammar
    /\ OriginalGrammar = Grammar
    /\ Visited = <<>>
    /\ nodes = <<Node>>
    /\ start = 1
    /\ stack = <<>>
    /\ count = 0
    /\ statesList = <<>>
    /\ edgesList = <<>>
    /\ opened = <<>>

\* g = grammarController.createGrammar(data); llrController.LLR.grammar = g
\* (data['nonTerminals'] is the list object the grammar keeps and extends)
CreateGrammar ==
    /\ pc = "open"
    /\ \E d \in Inputs :
          /\ grammar' = createGrammar(grammar, d)
          /\ data' = [d EXCEPT !.nonTerminals = grammar'.nonTerminals]
          /\ opened' = Append(opened, d)
    /\ pc' = "created"
    /\ UNCHANGED <<OriginalGrammar, Visited, nodes, start, stack>>
    /\ UNCHANGED <<count, statesList, edgesList>>

\* startNode() up to the call of depth() in start.newNode
StartNode ==
    /\ pc = "created"
    /\ LET n == Len(nodes) + 1
           marked == [grammar EXCEPT !.productions[1].pointIndex = -1]
           p0 == marked.productions[1]
           productions ==
               advance(deepcopy(<<[left |-> p0.left, right |-> p0.right,
                                   pointIndex |-> p0.pointIndex, obj |-> 1]>>))
           response == verifyExistence(Visited, deepcopy(productions))
       IN  /\ OriginalGrammar' = grammar
           /\ grammar' = marked
           /\ IF response[1]
              THEN /\ Visited' = Append(Visited, <<productions, n>>)
                   /\ nodes' = Append(nodes, createNode(grammar, Node, productions))
                   /\ stack' = <<Frame(n)>>
                   /\ pc' = "depth"
                   /\ start' = start
              ELSE /\ nodes' = Append(nodes, Node)
                   /\ start' = n
                   /\ pc' = "built"
                   /\ UNCHANGED <<Visited, stack>>
    /\ UNCHANGED data
    /\ UNCHANGED <<count, statesList, edgesList, opened>>

\* depth(), one transition: verifyExistence and newNode both report a new
\* state; the new controller registers it, builds its node and calls depth()
DepthNewState ==
    /\ Pending
    /\ LET pTT == productionsToTransition(TopNode, TopTr)
           n == Len(nodes) + 1
           productions == advance(deepcopy(pTT))
       IN  /\ verifyExistence(Visited, deepcopy(pTT))[1]
           /\ verifyExistence(Visited, deepcopy(productions))[1]
           /\ Visited' = Append(Visited, <<productions, n>>)
           /\ nodes' = Append(nodes, createNode(OriginalGrammar, Node, productions))
           /\ stack' = Append(stack, Frame(n))
    /\ UNCHANGED <<pc, data, grammar, OriginalGrammar, start>>
    /\ UNCHANGED <<count, statesList, edgesList, opened>>

\* depth(), one transition: verifyExistence reports a new state but newNode's
\* own verifyExistence does not; the controller's Node() stays as constructed
\* and the edge to it is appended
DepthNewNodeSkipped ==
    /\ Pending
    /\ LET pTT == productionsToTransition(TopNode, TopTr)
           n == Len(nodes) + 1
           productions == advance(deepcopy(pTT))
       IN  /\ verifyExistence(Visited, deepcopy(pTT))[1]
           /\ ~verifyExistence(Visited, deepcopy(productions))[1]
           /\ nodes' = [Append(nodes, Node) EXCEPT
                           ![Top.node].edge = Append(@, Edge(Top.node, n, TopTr))]
           /\ stack' = [stack EXCEPT ![Len(stack)].i = @ + 1]
    /\ UNCHANGED <<pc, data, grammar, OriginalGrammar, Visited, start>>
    /\ UNCHANGED <<count, statesList, edgesList, opened>>

\* depth(), one transition: verifyExistence reports an existing state; the
\* edge to response[1] is built but not appended
DepthExisting ==
    /\ Pending
    /\ ~verifyExistence(Visited, deepcopy(productionsToTransition(TopNode, TopTr)))[1]
    /\ stack' = [stack EXCEPT ![Len(stack)].i = @ + 1]
    /\ UNCHANGED <<pc, data, grammar, OriginalGrammar, Visited, nodes, start>>
    /\ UNCHANGED <<count, statesList, edgesList, opened>>

\* depth() and newNode() of a new state return into the caller's depth(),
\* which appends the edge to the new state
DepthReturn ==
    /\ pc = "depth"
    /\ Top.i > Len(Top.transitions)
    /\ Len(stack) > 1
    /\ LET parent == stack[Len(stack) - 1]
       IN  /\ nodes' = [nodes EXCEPT ![parent.node].edge =
                           Append(@, Edge(parent.node, Top.node,
                                          parent.transitions[parent.i]))]
           /\ stack' = [Pop(stack) EXCEPT ![Len(stack) - 1].i = @ + 1]
    /\ UNCHANGED <<pc, data, grammar, OriginalGrammar, Visited, start>>
    /\ UNCHANGED <<count, statesList, edgesList, opened>>

\* start.newNode returns into startNode: self._LLR.start = start.Node
StartNodeReturn ==
    /\ pc = "depth"
    /\ Top.i > Len(Top.transitions)
    /\ Len(stack) = 1
    /\ start' = Top.node
    /\ stack' = <<>>
    /\ pc' = "built"
    /\ UNCHANGED <<data, grammar, OriginalGrammar, Visited, nodes>>
    /\ UNCHANGED <<count, statesList, edgesList, opened>>

-----------------------------------------------------------------------------
\* Controller/LLRController.py, the passes over the finished automaton.
\* enumerate() counts from 0; the loops below count the edges from 1, so the
\* code's `index == 0` is `index = 1` here.

\* str(count)
RECURSIVE Str(_)
Str(n) ==
    LET digit == <<"0", "1", "2", "3", "4", "5", "6", "7", "8", "9">>
    IN  IF n < 10 THEN digit[n + 1] ELSE Str(n \div 10) \o digit[(n % 10) + 1]

RECURSIVE countStates(_, _, _)
RECURSIVE countStatesLoop(_, _, _, _)
RECURSIVE countStatesLoop_everyEdge(_, _, _, _)

\* the loop of _countStates adding one for every edge
countStatesLoop_everyEdge(heap, node, index, cnt) ==
    IF index > Len(heap[node].edge) THEN cnt
    ELSE countStatesLoop_everyEdge(heap, node, index + 1,
             countStates(heap, heap[node].edge[index].destination, cnt + 1))

\* for index, edge in enumerate(node.edge) of _countStates
countStatesLoop(heap, node, index, cnt) ==
    IF index > Len(heap[node].edge) THEN cnt
    ELSE countStatesLoop(heap, node, index + 1,
             countStates(heap, heap[node].edge[index].destination,
                         IF index = 1 THEN cnt + 1 ELSE cnt))

\* _countStates(node, count)
countStates(heap, node, cnt) ==
    IF Len(heap[node].edge) = 0 THEN cnt + 1
    ELSE countStatesLoop(heap, node, 1, cnt)

RECURSIVE nameStates(_, _, _)
RECURSIVE nameStatesLoop(_, _, _, _)
RECURSIVE nameStatesLoop_sameCount(_, _, _, _)

\* the loop of _nameStates handing the unchanged counter to the first edge
nameStatesLoop_sameCount(heap, node, index, cnt) ==
    IF index > Len(heap[node].edge) THEN <<heap, cnt>>
    ELSE LET r == nameStates(heap, heap[node].edge[index].destination, cnt)
         IN  nameStatesLoop_sameCount(r[1], node, index + 1, r[2])

\* for index, edge in enumerate(node.edge) of _nameStates: <<heap, count>>
nameStatesLoop(heap, node, index, cnt) ==
    IF index > Len(heap[node].edge) THEN <<heap, cnt>>
    ELSE LET r == nameStates(heap, heap[node].edge[index].destination,
                             IF index = 1 THEN cnt + 1 ELSE cnt)
         IN  nameStatesLoop(r[1], node, index + 1, r[2])

\* _nameStates(node, count): <<heap with the names set, returned count>>
nameStates(heap, node, cnt) ==
    LET named == [heap EXCEPT ![node].name = "I" \o Str(cnt)]
    IN  IF Len(heap[node].edge) = 0 THEN <<named, cnt + 1>>
        ELSE nameStatesLoop(named, node, 1, cnt)

RECURSIVE obtainListOfStates(_, _, _)
RECURSIVE obtainListOfStatesLoop(_, _, _, _)
RECURSIVE obtainListOfStatesLoop_everyEdge(_, _, _, _)

\* the loop of _obtainListOfStates appending the node at every edge
obtainListOfStatesLoop_everyEdge(heap, node, index, list) ==
    IF index > Len(heap[node].edge) THEN list
    ELSE obtainListOfStatesLoop_everyEdge(heap, node, index + 1,
             obtainListOfStates(heap, heap[node].edge[index].destination,
                                Append(list, node)))

\* for index, edge in enumerate(node.edge) of _obtainListOfStates
obtainListOfStatesLoop(heap, node, index, list) ==
    IF index > Len(heap[node].edge) THEN list
    ELSE obtainListOfStatesLoop(heap, node, index + 1,
             obtainListOfStates(heap, heap[node].edge[index].destination,
                                IF index = 1 THEN Append(list, node) ELSE list))

\* _obtainListOfStates(node, statesList)
obtainListOfStates(heap, node, list) ==
    IF Len(heap[node].edge) = 0 THEN Append(list, node)
    ELSE obtainListOfStatesLoop(heap, node, 1, list)

RECURSIVE obtainListOfEdges(_, _, _)
RECURSIVE obtainListOfEdgesLoop(_, _, _, _)
RECURSIVE obtainListOfEdgesLoop_extend(_, _, _, _)

\* the node's edges added again on every iteration of the loop
obtainListOfEdgesLoop_extend(heap, node, index, list) ==
    IF index > Len(heap[node].edge) THEN list
    ELSE obtainListOfEdgesLoop_extend(heap, node, index + 1,
             obtainListOfEdges(heap, heap[node].edge[index].destination,
                               list \o heap[node].edge))

\* for edge in node.edge of _obtainListOfEdges
obtainListOfEdgesLoop(heap, node, index, list) ==
    IF index > Len(heap[node].edge) THEN list
    ELSE obtainListOfEdgesLoop(heap, node, index + 1,
             obtainListOfEdges(heap, heap[node].edge[index].destination, list))

\* _obtainListOfEdges(node, edgesList)
obtainListOfEdges(heap, node, list) ==
    IF Len(heap[node].edge) = 0 THEN list
    ELSE obtainListOfEdgesLoop(heap, node, 1, list \o heap[node].edge)

\* Interface.__drawAutomata draws nothing above this number of states
MaxDrawn == 32

\* putNameOfStates(), called by Interface.__open after startNode()
PutNameOfStates ==
    /\ pc = "built"
    /\ nodes' = IF start = None THEN nodes ELSE nameStates(nodes, start, 0)[1]
    /\ pc' = "named"
    /\ UNCHANGED <<opened, data, grammar, OriginalGrammar, Visited, start, stack,
                   count, statesList, edgesList>>

\* obtainNumberOfStates(), the first call of Interface.__drawAutomata
ObtainNumberOfStates ==
    /\ pc = "named"
    /\ count' = IF start = None THEN 0 ELSE countStates(nodes, start, 0)
    /\ pc' = IF count' > MaxDrawn THEN "drawn" ELSE "counted"
    /\ UNCHANGED <<opened, data, grammar, OriginalGrammar, Visited, nodes, start, stack,
                   statesList, edgesList>>

\* llrStates = obtainStates()
ObtainStates ==
    /\ pc = "counted"
    /\ statesList' = IF start = None THEN <<>>
                      ELSE obtainListOfStates(nodes, start, <<>>)
    /\ pc' = "listed"
    /\ UNCHANGED <<opened, data, grammar, OriginalGrammar, Visited, nodes, start, stack,
                   count, edgesList>>

\* llrEdges = obtainEdges()
ObtainEdges ==
    /\ pc = "listed"
    /\ edgesList' = IF start = None THEN <<>>
                     ELSE obtainListOfEdges(nodes, start, <<>>)
    /\ pc' = "drawn"
    /\ UNCHANGED <<opened, data, grammar, OriginalGrammar, Visited, nodes, start, stack,
                   count, statesList>>

Next ==
    \/ CreateGrammar
    \/ StartNode
    \/ DepthNewState
    \/ DepthNewNodeSkipped
    \/ DepthExisting
    \/ DepthReturn
    \/ StartNodeReturn
    \/ PutNameOfStates
    \/ ObtainNumberOfStates
    \/ ObtainStates
    \/ ObtainEdges

Spec == Init /\ [][Next]_vars

-----------------------------------------------------------------------------
\* View/Interface.py: File > Open again on the same Interface, which keeps
\* its GrammarController and its LLRController

MaxOpens == 2

ReopenProductionData == {[left |-> "S", right |-> r] :
                            r \in SeqsUpTo({"S", "a"}, MaxRhs)}

ReopenInputs == {[initial |-> "S", terminals |-> <<"a">>,
                  nonTerminals |-> <<"S">>, productions |-> ps] :
                    ps \in SeqsUpTo(ReopenProductionData, MaxProds)}

\* the first file is any of ReopenInputs; a later one is the last file
\* again or the file of S -> a S b | c
FilesToOpen ==
    IF opened = <<>> THEN ReopenInputs ELSE {opened[Len(opened)], Scenario}

\* Interface.__open up to createGrammar: json.load gives a new dictionary;
\* the controllers, their grammar, visited list and nodes are the old ones
OpenFile ==
    /\ pc \in {"open", "drawn"}
    /\ Len(opened) < MaxOpens
    /\ \E d \in FilesToOpen :
          /\ grammar' = createGrammar(grammar, d)
          /\ data' = [d EXCEPT !.nonTerminals = grammar'.nonTerminals]
          /\ opened' = Append(opened, d)
    /\ pc' = "created"
    /\ UNCHANGED <<OriginalGrammar, Visited, nodes, start, stack>>
    /\ UNCHANGED <<count, statesList, edgesList>>

ReopenNext ==
    \/ OpenFile
    \/ StartNode
    \/ DepthNewState
    \/ DepthNewNodeSkipped
    \/ DepthExisting
    \/ DepthReturn
    \/ StartNodeReturn
    \/ PutNameOfStates
    \/ ObtainNumberOfStates
    \/ ObtainStates
    \/ ObtainEdges

ReopenSpec == Init /\ [][ReopenNext]_vars

-----------------------------------------------------------------------------
\* LR(0) notions the properties are stated with (items compared by value)

Item(p) == [left |-> p.left, right |-> p.right, pointIndex |-> p.pointIndex]

ItemSet(node) == {Item(node.productions[k]) : k \in 1..Len(node.productions)}

HasNext(it, X) == it.pointIndex < Len(it.right) /\ it.right[it.pointIndex + 1] = X

NextSymbols(I) == {it.right[it.pointIndex + 1] :
                      it \in {x \in I : x.pointIndex < Len(x.right)}}

IsComplete(it) == it.pointIndex = Len(it.right)

\* the items [B -> . gamma] of the productions of B
InitialItems(G, B) ==
    {[left |-> G.productions[k].left, right |-> G.productions[k].right,
      pointIndex |-> 0] :
        k \in {m \in 1..Len(G.productions) : G.productions[m].left = B}}

RECURSIVE Closure(_, _)
Closure(G, I) ==
    LET more == UNION {InitialItems(G, B) :
                         B \in {X \in NextSymbols(I) : InList(X, G.nonTerminals)}}
    IN  IF more \subseteq I THEN I ELSE Closure(G, I \cup more)

Goto(G, I, X) ==
    Closure(G, {[it EXCEPT !.pointIndex = @ + 1] : it \in {x \in I : HasNext(x, X)}})

RECURSIVE CanonicalFrom(_, _)
CanonicalFrom(G, C) ==
    LET next == C \cup {Goto(G, IX[1], IX[2]) :
                           IX \in UNION {{<<I, X>> : X \in NextSymbols(I)} : I \in C}}
    IN  IF next = C THEN C ELSE CanonicalFrom(G, next)

CanonicalCollection(G) ==
    CanonicalFrom(G, {Closure(G, {[left |-> G.productions[1].left,
                                   right |-> G.productions[1].right,
                                   pointIndex |-> 0]})})

\* the nodes reachable from LLR.start along edges
Successors(n) == {nodes[n].edge[j].destination : j \in 1..Len(nodes[n].edge)}

RECURSIVE ReachableFrom(_)
ReachableFrom(R) ==
    LET next == R \cup UNION {Successors(n) : n \in R}
    IN  IF next = R THEN R ELSE ReachableFrom(next)

Reachable == ReachableFrom({start})

\* the nodes registered in the visited list
Registered == {Visited[k][2] : k \in 1..Len(Visited)}

Built == pc = "built"

-----------------------------------------------------------------------------
\* Properties

\* the goto target, as an item set, of the transition the innermost depth()
\* is about to handle
PendingTarget == Goto(grammar, ItemSet(TopNode), TopTr)

\* C1: after createGrammar and startNode on fresh controllers, the item sets
\* of the states reachable from LLR.start are exactly the canonical LR(0)
\* collection of the augmented grammar.
C1_CanonicalCollection ==
    Built => {ItemSet(nodes[n]) : n \in Reachable} = CanonicalCollection(grammar)

\* C2: when depth() handles a transition S --X--> whose goto target is the
\* item set of a registered state E, the edge S --X--> E is appended to the
\* edges of S and no new state is created.
C2_EdgeToExistingState ==
    [][(Pending /\ \E e \in Registered : ItemSet(nodes[e]) = PendingTarget)
        => /\ Len(nodes') = Len(nodes)
           /\ \E e \in Registered :
                 /\ ItemSet(nodes[e]) = PendingTarget
                 /\ InList(Edge(Top.node, e, TopTr), nodes'[Top.node].edge)]_vars

\* C3: after startNode, no two distinct nodes reachable from LLR.start have
\* equal item sets, empty item sets included.
C3_NoEqualStates ==
    Built => \A m, n \in Reachable :
                m # n => ItemSet(nodes[m]) # ItemSet(nodes[n])

\* C4: when depth() handles a transition whose goto target J is non-empty and
\* is the item set of no registered state, a new state with the items J is
\* registered and expanded; verifyExistence reports "exists" only for an
\* exact match with one registered state.
C4_NewStateRegistered ==
    [][(/\ Pending
        /\ PendingTarget # {}
        /\ \A e \in Registered : ItemSet(nodes[e]) # PendingTarget)
        => /\ Len(nodes') = Len(nodes) + 1
           /\ ItemSet(nodes'[Len(nodes')]) = PendingTarget
           /\ Visited' = Append(Visited, <<Visited'[Len(Visited')][1], Len(nodes')>>)
           /\ stack'[Len(stack')].node = Len(nodes')]_vars

\* C5: for every edge S --X--> D of the finished automaton, the items of D
\* are the closure of the items of S advanced over X, and D is not empty.
C5_EdgesFollowGoto ==
    Built => \A n \in Reachable : \A j \in 1..Len(nodes[n].edge) :
                LET e == nodes[n].edge[j]
                    D == ItemSet(nodes[e.destination])
                IN  D = Goto(grammar, ItemSet(nodes[n]), e.transition) /\ D # {}

\* C6: every state of the finished automaton is closure-closed: a
\* non-terminal B right after the dot of an item brings every production of
\* B of the augmented grammar into the state at dot 0.
C6_ClosureClosed ==
    Built => \A n \in Reachable : \A it \in ItemSet(nodes[n]) :
                \A B \in {X \in NextSymbols({it}) : InList(X, grammar.nonTerminals)} :
                    InitialItems(grammar, B) \subseteq ItemSet(nodes[n])

\* a state other than the start state has an item before a non-terminal with
\* two or more productions
C6_Witness ==
    /\ Built
    /\ \E n \in Reachable \ {start} : \E B \in NextSymbols(ItemSet(nodes[n])) :
          /\ InList(B, grammar.nonTerminals)
          /\ Cardinality(InitialItems(grammar, B)) >= 2

\* no two positions of the node hold the same item
NoItemTwice(node) ==
    \A j, k \in 1..Len(node.productions) :
        j # k => Item(node.productions[j]) # Item(node.productions[k])

\* C7: closure is idempotent: createNode applied to the items of a finished
\* state adds no item, and no item appears twice in a state.
C7_ClosureIdempotent ==
    Built => \A n \in Reachable :
                /\ createNode(OriginalGrammar, nodes[n], nodes[n].productions) = nodes[n]
                /\ NoItemTwice(nodes[n])

\* C8: a state of the finished automaton has an outgoing edge labelled X
\* only if one of its items has X right after the dot.
C8_NoEdgeWithoutItem ==
    Built => \A n \in Reachable : \A j \in 1..Len(nodes[n].edge) :
                nodes[n].edge[j].transition \in NextSymbols(ItemSet(nodes[n]))

\* a state with edges, and a symbol of the grammar that follows no dot in
\* it and labels none of its edges
C8_Witness ==
    /\ Built
    /\ \E n \in Reachable :
          /\ Len(nodes[n].edge) >= 1
          /\ \E k \in 1..Len(grammar.productions) :
                \E X \in NextSymbols({[left |-> grammar.productions[k].left,
                                        right |-> grammar.productions[k].right,
                                        pointIndex |-> 0]}) :
                    /\ X \notin NextSymbols(ItemSet(nodes[n]))
                    /\ \A j \in 1..Len(nodes[n].edge) :
                          nodes[n].edge[j].transition # X

\* the ids (positions from 0) of the productions of the grammar equal to
\* the production of the item
ProductionIds(G, it) ==
    {k - 1 : k \in {m \in 1..Len(G.productions) :
                       /\ G.productions[m].left = it.left
                       /\ G.productions[m].right = it.right}}

CompleteItems(node) == {it \in ItemSet(node) : IsComplete(it)}

\* C9: the completed marker of a finished state exposes the production id of
\* every complete item of the state.
C9_AllCompletedExposed ==
    Built => \A n \in Reachable : \A it \in CompleteItems(nodes[n]) :
                nodes[n].allowed \in ProductionIds(grammar, it)

\* C10: Node.allowed of a finished state is None exactly when the state has
\* no complete item, and otherwise is the index in the augmented production
\* list of a production with a complete item in the state.
C10_AllowedMarksCompleteItem ==
    Built => \A n \in Reachable :
                /\ nodes[n].allowed = None <=> CompleteItems(nodes[n]) = {}
                /\ nodes[n].allowed # None =>
                      \E it \in CompleteItems(nodes[n]) :
                          nodes[n].allowed \in ProductionIds(grammar, it)

\* a state without complete item next to a state marked with a production
\* other than production 0
C10_Witness ==
    /\ Built
    /\ \E m, n \in Reachable :
          /\ nodes[m].productions # <<>>
          /\ nodes[m].allowed = None
          /\ nodes[n].allowed > 0

\* the complete item of the augmented start production
AcceptItem ==
    [left |-> grammar.productions[1].left, right |-> grammar.productions[1].right,
     pointIndex |-> Len(grammar.productions[1].right)]

\* C11: in the finished automaton exactly one state is marked with
\* production 0, and it is the state the start state reaches over the
\* original start symbol, holding the complete item of production 0.
C11_UniqueAcceptState ==
    Built => LET marked == {n \in Reachable : nodes[n].allowed = 0}
             IN  /\ Cardinality(marked) = 1
                 /\ \A n \in marked :
                       /\ InList(Edge(start, n, data.initial), nodes[start].edge)
                       /\ AcceptItem \in ItemSet(nodes[n])

-----------------------------------------------------------------------------
\* createGrammar on its own, over dictionaries that need not be well formed:
\* symbols may be undeclared, S' may be declared, used or defined.

AnyProductionData == {[left |-> l, right |-> r] :
                         l \in {"S", "S'"},
                         r \in SeqsUpTo({"S", "S'", "a"}, MaxRhs)}

AnyInputs == {[initial |-> i, terminals |-> t, nonTerminals |-> n,
               productions |-> ps] :
                 i \in {"S", "A"}, t \in {<<>>, <<"a">>},
                 n \in {<<"S">>, <<"S", "S'">>},
                 ps \in SeqsUpTo(AnyProductionData, MaxProds)}

\* grammarController.createGrammar(data) on a fresh GrammarController; the
\* code has no path that raises
CreateAnyGrammar ==
    /\ pc = "open"
    /\ \E d \in AnyInputs :
          /\ grammar' = createGrammar(grammar, d)
          /\ data' = [d EXCEPT !.nonTerminals = grammar'.nonTerminals]
          /\ opened' = Append(opened, d)
    /\ pc' = "created"
    /\ UNCHANGED <<OriginalGrammar, Visited, nodes, start, stack>>
    /\ UNCHANGED <<count, statesList, edgesList>>

GrammarSpec == Init /\ [][CreateAnyGrammar]_vars

Created == pc = "created"

\* the nonTerminals list as it was given (createGrammar appended start')
GivenNonTerminals == Pop(data.nonTerminals)

RECURSIVE Quotes(_)
Quotes(k) == IF k = 0 THEN "" ELSE Quotes(k - 1) \o "'"

\* C12: after createGrammar on a fresh GrammarController production 0 is
\* start' -> data.initial, start' is the initial symbol of the grammar and
\* one of its non-terminals, and start' is data.initial followed by one or
\* more quotes.
C12_AugmentedStart ==
    Created =>
        /\ grammar.productions[1].left = grammar.initial
        /\ grammar.productions[1].right = <<data.initial>>
        /\ InList(grammar.initial, grammar.nonTerminals)
        /\ \E k \in 1..Len(grammar.productions) :
              grammar.initial = data.initial \o Quotes(k)

\* the grammar defines start + "'" and the loop adds a second quote
C12_Witness ==
    /\ Created
    /\ variable_exists(grammar, data.initial \o "'")
    /\ grammar.initial = data.initial \o "''"

\* the symbols the given dictionary declares or uses
GivenSymbols ==
    {data.initial}
    \cup {GivenNonTerminals[k] : k \in 1..Len(GivenNonTerminals)}
    \cup {data.terminals[k] : k \in 1..Len(data.terminals)}
    \cup {data.productions[k].left : k \in 1..Len(data.productions)}
    \cup UNION {{data.productions[k].right[j] :
                    j \in 1..Len(data.productions[k].right)} :
                  k \in 1..Len(data.productions)}

\* C13: the augmented start symbol differs from every non-terminal the
\* input declares and from every symbol the input uses.
C13_FreshStartSymbol ==
    Created => grammar.initial \notin GivenSymbols

\* every right-side symbol is declared and the start symbol is a declared
\* non-terminal
WellFormed ==
    /\ InList(data.initial, GivenNonTerminals)
    /\ \A k \in 1..Len(data.productions) :
          \A j \in 1..Len(data.productions[k].right) :
              \/ InList(data.productions[k].right[j], data.terminals)
              \/ InList(data.productions[k].right[j], GivenNonTerminals)

\* C14: createGrammar returns a grammar only for a well-formed dictionary;
\* otherwise it fails and construction is never started.
C14_ValidationError ==
    Created => WellFormed

-----------------------------------------------------------------------------
\* Properties of the passes over the finished automaton

Named == pc \in {"named", "counted", "listed", "drawn"}
Counted == pc \in {"counted", "listed", "drawn"}
Drawn == pc = "drawn" /\ count <= MaxDrawn

\* some reachable state has two or more outgoing edges
Branching == \E n \in Reachable : Len(nodes[n].edge) >= 2

\* C15: obtainNumberOfStates returns the number of distinct nodes reachable
\* from LLR.start, each counted once.
C15_StateCount ==
    Counted => count = Cardinality(Reachable)

\* a counted automaton of four or more states that branches
C15_Witness ==
    Counted /\ count >= 4 /\ Branching

\* depth-first first-visit order from LLR.start, edges in list order, with a
\* visited check
RECURSIVE DfsVisit(_, _)
RECURSIVE DfsEdges(_, _, _)
DfsVisit(n, seen) ==
    IF InList(n, seen) THEN seen ELSE DfsEdges(n, 1, Append(seen, n))

DfsEdges(n, j, seen) ==
    IF j > Len(nodes[n].edge) THEN seen
    ELSE DfsEdges(n, j + 1, DfsVisit(nodes[n].edge[j].destination, seen))

FirstVisitOrder == DfsVisit(start, <<>>)

\* C16: after putNameOfStates the n reachable states carry pairwise distinct
\* names, exactly I0 .. I(n-1), the start state is I0, the numbers follow
\* depth-first first-visit order, and the pass assigns n names, one per state.
C16_StateNames ==
    Named =>
        LET n == Cardinality(Reachable)
        IN  /\ {nodes[m].name : m \in Reachable} = {"I" \o Str(k) : k \in 0..(n - 1)}
            /\ \A m1, m2 \in Reachable :
                  m1 # m2 => nodes[m1].name # nodes[m2].name
            /\ nodes[start].name = "I0"
            /\ \A k \in 1..Len(FirstVisitOrder) :
                  nodes[FirstVisitOrder[k]].name = "I" \o Str(k - 1)
            /\ nameStates(nodes, start, 0)[2] = n

\* a named automaton of four or more states that branches
C16_Witness ==
    Named /\ Cardinality(Reachable) >= 4 /\ Branching
          /\ \E m \in Reachable : nodes[m].name = "I3"

\* the edge objects of the reachable states: <<node, position>>
ReachableEdges ==
    UNION {{<<n, j>> : j \in 1..Len(nodes[n].edge)} : n \in Reachable}

\* C17: obtainStates lists every reachable state exactly once and nothing
\* else, obtainEdges lists every edge of every reachable state exactly once
\* and nothing else, and the origin and destination of every listed edge
\* are in the list of states.
C17_StateAndEdgeLists ==
    Drawn =>
        /\ Len(statesList) = Cardinality(Reachable)
        /\ {statesList[k] : k \in 1..Len(statesList)} = Reachable
        /\ Len(edgesList) = Cardinality(ReachableEdges)
        /\ \A nj \in ReachableEdges :
              Cardinality({k \in 1..Len(edgesList) :
                              edgesList[k] = nodes[nj[1]].edge[nj[2]]}) = 1
        /\ \A k \in 1..Len(edgesList) :
              /\ \E nj \in ReachableEdges : edgesList[k] = nodes[nj[1]].edge[nj[2]]
              /\ InList(edgesList[k].origin, statesList)
              /\ InList(edgesList[k].destination, statesList)

\* both lists are made for an automaton of four or more states that branches
C17_Witness ==
    Drawn /\ Len(statesList) >= 4 /\ Len(edgesList) >= 3 /\ Branching

-----------------------------------------------------------------------------
\* Termination of the construction

\* a depth() call starts in this step
DepthCalled == Len(stack') > Len(stack)

\* newNode registers a state in this step
StateRegistered == Len(Visited') > Len(Visited)

\* depth() starts exactly in the steps that register a state, and for that
\* state
OneDepthPerRegistration ==
    /\ DepthCalled <=> StateRegistered
    /\ DepthCalled =>
          /\ Len(stack') = Len(stack) + 1
          /\ Len(Visited') = Len(Visited) + 1
          /\ stack'[Len(stack')].node = Visited'[Len(Visited')][2]

\* a registered kernel as a bag: its items with the number of times each
\* occurs in the list
KernelBag(K) ==
    {<<Item(K[j]), Cardinality({m \in 1..Len(K) : Item(K[m]) = Item(K[j])})>> :
        j \in 1..Len(K)}

\* no node is registered twice, and no two registered kernels are the same
\* bag of items
RegisteredOnce ==
    \A i, j \in 1..Len(Visited) :
        i # j => /\ Visited[i][2] # Visited[j][2]
                 /\ KernelBag(Visited[i][1]) # KernelBag(Visited[j][1])

\* the items of the augmented grammar
AllItems ==
    UNION {{[left |-> OriginalGrammar.productions[k].left,
             right |-> OriginalGrammar.productions[k].right,
             pointIndex |-> d] :
                d \in 0..Len(OriginalGrammar.productions[k].right)} :
           k \in 1..Len(OriginalGrammar.productions)}

\* a kernel holds items of the grammar, none more than twice
KernelsBounded ==
    \A i \in 1..Len(Visited) :
        \A b \in KernelBag(Visited[i][1]) : b[1] \in AllItems /\ b[2] <= 2

\* states that can still be registered: the kernels are distinct bags in
\* which each item occurs 0, 1 or 2 times
StatesLeft == 3 ^ Cardinality(AllItems) - Len(Visited)

\* loop iterations and returns left in the depth() calls on the stack
RECURSIVE StepsLeftIn(_)
StepsLeftIn(st) ==
    IF st = <<>> THEN 0
    ELSE LET f == st[Len(st)]
         IN  (Len(f.transitions) + 1 - f.i) + 1 + StepsLeftIn(Pop(st))

StepsLeft == StepsLeftIn(stack)

\* a step of the construction registers one of the finitely many states
\* left, or else uses up one of the steps left
ConstructionProgress ==
    /\ StatesLeft >= 0 /\ StepsLeft >= 0
    /\ StatesLeft' >= 0 /\ StepsLeft' >= 0
    /\ \/ StatesLeft' < StatesLeft
       \/ StatesLeft' = StatesLeft /\ StepsLeft' < StepsLeft

\* C19: startNode terminates for every grammar (every step of depth lowers
\* a bounded measure and depth is never stuck), and depth is executed exactly
\* once for each registered state.
C19_TerminatesOneDepthEach ==
    [][/\ OneDepthPerRegistration
       /\ RegisteredOnce /\ RegisteredOnce'
       /\ pc' = "depth" => KernelsBounded'
       /\ pc = "depth" =>
             /\ ConstructionProgress
             /\ stack # <<>>
             /\ pc' \in {"depth", "built"}]_vars

\* a finished construction of three or more registered states for a grammar
\* with a left-recursive production and an empty production
C19_Witness ==
    /\ pc = "built"
    /\ Len(Visited) >= 3
    /\ \E k \in 1..Len(OriginalGrammar.productions) :
          LET p == OriginalGrammar.productions[k]
          IN  Len(p.right) > 0 /\ p.right[1] = p.left
    /\ \E k \in 1..Len(OriginalGrammar.productions) :
          Len(OriginalGrammar.productions[k].right) = 0

-----------------------------------------------------------------------------
\* Termination of the passes over the automaton

\* the edges from reachable states into n
EdgesInto(n) == {nj \in ReachableEdges : nodes[nj[1]].edge[nj[2]].destination = n}

\* the canonical automaton of the grammar has a self-loop or a back-edge:
\* some state is reached again from one of its successors
GrammarHasCycle ==
    \E I \in CanonicalCollection(OriginalGrammar) :
        \E X \in NextSymbols(I) :
            I \in CanonicalFrom(OriginalGrammar, {Goto(OriginalGrammar, I, X)})

\* C20: the four passes terminate on every automaton startNode produces and
\* visit each reachable state a bounded number of times: the passes follow
\* every edge without a visited check, no reachable state is reached again
\* from itself, none is entered by two edges, and each pass makes one visit
\* per reachable state.
C20_PassesVisitEachStateOnce ==
    Drawn =>
        LET n == Cardinality(Reachable)
        IN  /\ \A m \in Reachable : m \notin ReachableFrom(Successors(m))
            /\ \A m \in Reachable : Cardinality(EdgesInto(m)) <= 1
            /\ EdgesInto(start) = {}
            /\ count = n
            /\ nameStates(nodes, start, 0)[2] = n
            /\ Len(statesList) = n
            /\ Len(edgesList) = n - 1

\* the passes are done for a grammar whose canonical automaton has a cycle
C20_Witness ==
    Drawn /\ GrammarHasCycle /\ count >= 3

-----------------------------------------------------------------------------
\* The automaton of S -> a S b | c

ScenarioBuilt == pc = "built" /\ data.productions = Scenario.productions

It(l, r, d) == [left |-> l, right |-> r, pointIndex |-> d]

\* the destinations of the edges of node n labelled X
EdgesOn(n, X) ==
    {nodes[n].edge[j].destination :
        j \in {k \in 1..Len(nodes[n].edge) : nodes[n].edge[k].transition = X}}

\* C21: for S -> a S b | c the start state holds exactly [S'->.S], [S->.aSb],
\* [S->.c]; it has an edge on a to a state holding exactly [S->a.Sb],
\* [S->.aSb], [S->.c]; it has an edge on c to a state whose only item is
\* [S->c.] and whose marker is the production id of S->c; and the a-state's
\* transition on a leads to the a-state itself.
C21_Scenario ==
    ScenarioBuilt =>
        /\ ItemSet(nodes[start]) = {It("S'", <<"S">>, 0),
                                    It("S", <<"a", "S", "b">>, 0),
                                    It("S", <<"c">>, 0)}
        /\ \E m \in EdgesOn(start, "a") :
              /\ ItemSet(nodes[m]) = {It("S", <<"a", "S", "b">>, 1),
                                      It("S", <<"a", "S", "b">>, 0),
                                      It("S", <<"c">>, 0)}
              /\ m \in EdgesOn(m, "a")
        /\ \E m \in EdgesOn(start, "c") :
              /\ ItemSet(nodes[m]) = {It("S", <<"c">>, 1)}
              /\ nodes[m].allowed = 2

-----------------------------------------------------------------------------
\* Effects of the construction on the grammar

\* C22: startNode does not mutate the grammar: after it, LLR.grammar has the
\* productions, scan positions, terminals, nonTerminals and initial symbol
\* it had before the call (OriginalGrammar is the deep copy startNode takes
\* on entry).
C22_GrammarNotMutated ==
    pc = "built" => grammar = OriginalGrammar

-----------------------------------------------------------------------------
\* A second File > Open on the same controllers

\* the automata rooted at m1 and m2 have the same states, edges and markers
RECURSIVE SameAutomaton(_, _)
SameAutomaton(m1, m2) ==
    /\ ItemSet(nodes[m1]) = ItemSet(nodes[m2])
    /\ nodes[m1].allowed = nodes[m2].allowed
    /\ Len(nodes[m1].edge) = Len(nodes[m2].edge)
    /\ \A j \in 1..Len(nodes[m1].edge) :
          /\ nodes[m1].edge[j].transition = nodes[m2].edge[j].transition
          /\ SameAutomaton(nodes[m1].edge[j].destination,
                           nodes[m2].edge[j].destination)

\* the start state of the first construction: the node of the first entry
\* of the visited list
FirstStart == Visited[1][2]

\* C23: a second startNode on the same LLRController starts from an index
\* without the entries of the first construction, so for the same grammar
\* the second automaton has the states, edges and markers of the first.
C23_SecondAutomatonSame ==
    (pc = "built" /\ Len(opened) = 2 /\ opened[1] = opened[2])
        => SameAutomaton(FirstStart, start)

\* C24: after every createGrammar(data), also a second one on the same
\* GrammarController, the production list is the augmented production
\* start' -> data.initial followed by the productions of data in their
\* order, and the grammar is augmented exactly once.
C24_ProductionsOfData ==
    pc = "created" =>
        LET d == opened[Len(opened)]
        IN  /\ Len(grammar.productions) = Len(d.productions) + 1
            /\ grammar.productions[1].left = grammar.initial
            /\ grammar.productions[1].right = <<d.initial>>
            /\ \A i \in 1..Len(d.productions) :
                  i + 1 <= Len(grammar.productions) =>
                      /\ grammar.productions[i + 1].left = d.productions[i].left
                      /\ grammar.productions[i + 1].right = d.productions[i].right
            /\ Cardinality({k \in 1..Len(grammar.productions) :
                                grammar.productions[k].right = <<d.initial>>
                                /\ grammar.productions[k].left \notin {d.initial}
                                /\ ~InList(grammar.productions[k].left,
                                           d.nonTerminals)}) = 1

-----------------------------------------------------------------------------
\* The node returned by verifyExistence

ItemsOf(productions) == {Item(productions[j]) : j \in 1..Len(productions)}

\* C25: whenever verifyExistence reports that the productions are not a new
\* state, the node it returns is the registered state whose kernel items
\* equal the productions with the dot advanced by one.
C25_ReturnedNodeIsMatch ==
    Pending =>
        LET pTT == productionsToTransition(TopNode, TopTr)
            response == verifyExistence(Visited, deepcopy(pTT))
        IN  ~response[1] =>
                \E k \in 1..Len(Visited) :
                    /\ Visited[k][2] = response[2]
                    /\ ItemsOf(Visited[k][1]) = ItemsOf(advance(pTT))

-----------------------------------------------------------------------------
\* Order of the edges of a state

\* the items of node n, in list order, that have X after the dot
ItemsBefore(n, X) ==
    {k \in 1..Len(nodes[n].productions) :
        LET p == nodes[n].productions[k]
        IN  p.pointIndex >= 0 /\ p.pointIndex < Len(p.right)
            /\ p.right[p.pointIndex + 1] = X}

\* the position of the first item of node n that has X after the dot
FirstAppearance(n, X) ==
    CHOOSE k \in ItemsBefore(n, X) : \A m \in ItemsBefore(n, X) : k <= m

\* C26: in the finished automaton each symbol labels at most one outgoing
\* edge of a state, and the edges of a state are stored in first-appearance
\* order of their symbols among the state's items.
C26_EdgesInFirstAppearanceOrder ==
    Built =>
        \A n \in Reachable :
            \A j1, j2 \in 1..Len(nodes[n].edge) :
                j1 < j2 =>
                    /\ nodes[n].edge[j1].transition # nodes[n].edge[j2].transition
                    /\ ItemsBefore(n, nodes[n].edge[j1].transition) # {}
                    /\ ItemsBefore(n, nodes[n].edge[j2].transition) # {}
                    /\ FirstAppearance(n, nodes[n].edge[j1].transition)
                          < FirstAppearance(n, nodes[n].edge[j2].transition)

\* a state with two edges in which the symbol of an edge follows the dot in
\* two items
C26_Witness ==
    Built /\ \E n \in Reachable :
        /\ Len(nodes[n].edge) >= 2
        /\ \E j \in 1..Len(nodes[n].edge) :
              Cardinality(ItemsBefore(n, nodes[n].edge[j].transition)) >= 2

-----------------------------------------------------------------------------
\* Shape of the automaton

-----------------------------------------------------------------------------
\* The visited list

\* entries have pairwise different kernels
KernelsDiffer ==
    \A i, j \in 1..Len(Visited) :
        i # j => ItemsOf(Visited[i][1]) # ItemsOf(Visited[j][1])

\* each entry's node is reachable and holds the closure of the entry's kernel
EntriesAreStates ==
    \A i \in 1..Len(Visited) :
        /\ Visited[i][2] \in Reachable
        /\ ItemSet(nodes[Visited[i][2]])
              = Closure(OriginalGrammar, ItemsOf(Visited[i][1]))

\* every reachable state appears in exactly one entry
StatesAreEntries ==
    \A n \in Reachable :
        Cardinality({i \in 1..Len(Visited) : Visited[i][2] = n}) = 1

\* entries are never removed or changed
VisitedOnlyGrows ==
    /\ Len(Visited') >= Len(Visited)
    /\ \A i \in 1..Len(Visited) : Visited'[i] = Visited[i]

\* C28: after startNode on a fresh LLRController the visited list holds
\* exactly one entry per reachable state (pairwise different kernels, each
\* entry's node reachable and holding the closure of its kernel, every
\* reachable state in exactly one entry), and during construction the list
\* only grows.
C28_VisitedIsTheStates ==
    [][/\ VisitedOnlyGrows
       /\ pc' = "built" =>
             (KernelsDiffer /\ EntriesAreStates /\ StatesAreEntries)']_vars

=============================================================================
